---- MODULE Spec2Model ----
(***************************************************************************)
(* Model of obfuscate_calendar.py: a script that copies iCloud (CalDAV)    *)
(* events into a Google calendar as anonymous "Busy" blocks.  One run is   *)
(* main(): authenticate, fetch the source, purge the destination, insert.  *)
(*                                                                         *)
(* Python values are modelled as follows.                                  *)
(*   - str / None: TLA+ strings, None being the string "<None>".           *)
(*   - date / datetime: records [isDatetime, n, tzinfo]; n is the day or   *)
(*     the hour on an integer time line.                                   *)
(*   - tzinfo: a record [none, hasZone, zone, repr]; repr is str(tzinfo)   *)
(*     cut into tokens, a token being either the quote character or a      *)
(*     maximal run of other characters.                                    *)
(*   - a VEVENT: a record with one has-flag per optional property.         *)
(***************************************************************************)
EXTENDS Integers, Sequences, FiniteSets, TLC

(* ------------------------------ bounds -------------------------------- *)
MaxRuns == 2        \* invocations of the script in one behaviour
MaxVevents == 2     \* components of one source item
MaxEvents == 2      \* items of one source calendar
PageSize == 2       \* events the destination returns per list page
MaxFaults == 1      \* failures the environment injects in one behaviour

(* --------------------------- Python helpers --------------------------- *)
None == "<None>"
Truthy(s) == s # None /\ s # ""

Contains(seq, x) == \E i \in 1..Len(seq) : seq[i] = x

RECURSIVE SplitFrom(_, _, _, _)
SplitFrom(tokens, sep, i, cur) ==
    IF i > Len(tokens) THEN <<cur>>
    ELSE IF tokens[i] = sep
         THEN <<cur>> \o SplitFrom(tokens, sep, i + 1, "")
         ELSE SplitFrom(tokens, sep, i + 1, tokens[i])
\* str.split(sep) on a tokenised string: the pieces between separators
Split(tokens, sep) == SplitFrom(tokens, sep, 1, "")

(* ------------------------------ config -------------------------------- *)
default_timezone == "America/Los_Angeles"
CalReminders == <<"Reminders", " (old)">>
CalPrivate == <<"Private">>
CalWork == <<"Work">>
CalFamily == <<"Family">>
ICLOUD_CALENDARS_TO_SKIP == {CalPrivate}
ICLOUD_CALENDARS_ALLOW_FULL_DAY_EVENTS == {CalFamily}
\* calendar.name.startswith("Reminders"): a name is a sequence of words
StartsWithReminders(name) == Len(name) > 0 /\ name[1] = "Reminders"

(* --------------------------- time values ------------------------------ *)
NoTz == [none |-> TRUE, hasZone |-> FALSE, zone |-> None, repr |-> <<>>]
ZoneTz(z) == [none |-> FALSE, hasZone |-> TRUE, zone |-> z, repr |-> <<>>]
ReprTz(r) == [none |-> FALSE, hasZone |-> FALSE, zone |-> None, repr |-> r]
Date(d) == [isDatetime |-> FALSE, n |-> d, tzinfo |-> NoTz]
DateTime(t, tz) == [isDatetime |-> TRUE, n |-> t, tzinfo |-> tz]

\* date.isoformat() / datetime.isoformat()
isoformat(dt) ==
    IF dt.isDatetime
    THEN [fmt |-> "YYYY-MM-DDTHH:MM:SS", n |-> dt.n, offset |-> ~dt.tzinfo.none]
    ELSE [fmt |-> "YYYY-MM-DD", n |-> dt.n, offset |-> FALSE]

get_timezone_name(tzinfo) ==
    IF ~tzinfo.none
    THEN IF tzinfo.hasZone
         THEN tzinfo.zone
         ELSE IF Contains(tzinfo.repr, "'")
              THEN Split(tzinfo.repr, "'")[2]
              ELSE default_timezone
    ELSE default_timezone

\* one of the "start" / "end" entries of the event body
TimeField(dt) ==
    LET timezone == IF dt.isDatetime THEN get_timezone_name(dt.tzinfo) ELSE None
        time_iso == isoformat(dt)
    IN  IF Truthy(timezone)
        THEN [form |-> "dateTime", value |-> time_iso,
              timeZone |-> IF Truthy(timezone) THEN timezone ELSE default_timezone]
        ELSE [form |-> "date", value |-> time_iso, timeZone |-> None]

\* the end the body is built from: DTEND, or the safeguard when it is missing
EndOf(vevent) ==
    IF vevent.hasDtend THEN vevent.dtend
    ELSE IF vevent.dtstart.isDatetime
         THEN DateTime(vevent.dtstart.n + 1, vevent.dtstart.tzinfo)
         ELSE vevent.dtstart

obfuscate_vevent(vevent, etag) ==
    [summary |-> "Busy",
     start |-> TimeField(vevent.dtstart),
     end |-> TimeField(EndOf(vevent)),
     transparency |-> "opaque",
     private |-> [icloud_uid |-> vevent.uid, icloud_etag |-> etag],
     hasRecurrence |-> FALSE,
     recurrence |-> <<>>]

(* ----------------------------- recurrence ----------------------------- *)
RuleLine(rrule) ==
    [line |-> "RRULE", form |-> "", tzid |-> None, stamp |-> 0, rule |-> rrule]

_format_exdate(dt, exdate_params) ==
    IF dt.isDatetime
    THEN IF Truthy(exdate_params.TZID)
         THEN [line |-> "EXDATE", form |-> ";TZID=", tzid |-> exdate_params.TZID,
               stamp |-> dt.n, rule |-> None]
         ELSE [line |-> "EXDATE", form |-> "Z", tzid |-> None,
               stamp |-> dt.n, rule |-> None]
    ELSE [line |-> "EXDATE", form |-> ";VALUE=DATE", tzid |-> None,
          stamp |-> dt.n, rule |-> None]

RECURSIVE FormatAll(_, _, _)
FormatAll(values, params, i) ==
    IF i > Len(values) THEN <<>>
    ELSE <<_format_exdate(values[i], params)>> \o FormatAll(values, params, i + 1)

RECURSIVE ExdateLines(_, _)
\* the lines of the EXDATE properties exdates[i..], one per instant
ExdateLines(exdates, i) ==
    IF i > Len(exdates) THEN <<>>
    ELSE FormatAll(exdates[i].value, exdates[i].params, 1)
         \o ExdateLines(exdates, i + 1)

convert_master_recurrence(vevent) ==
    (IF vevent.hasRrule THEN <<RuleLine(vevent.rrule)>> ELSE <<>>)
    \o (IF vevent.hasExdate THEN ExdateLines(vevent.exdate, 1) ELSE <<>>)

RECURSIVE convert_overrides_to_exdates(_, _)
convert_overrides_to_exdates(master_rrule_list, overrides) ==
    IF overrides = <<>> THEN master_rrule_list
    ELSE LET ov == Head(overrides)
         IN  convert_overrides_to_exdates(
                 IF ov.hasRecurrenceId
                 THEN Append(master_rrule_list,
                             _format_exdate(ov.recurrence_id.value,
                                            ov.recurrence_id.params))
                 ELSE master_rrule_list,
                 Tail(overrides))

\* all-day decided on the end instead of the start
is_all_day_by_end(vevent) == ~EndOf(vevent).isDatetime

is_all_day_vevent(vevent) == ~vevent.dtstart.isDatetime

(* ------------------------ one source item (332-394) ------------------- *)
RECURSIVE VeventIndices(_, _)
\* [c for c in components() if c.name == "VEVENT"], as indices into comps
VeventIndices(comps, i) ==
    IF i > Len(comps) THEN <<>>
    ELSE (IF comps[i].name = "VEVENT" THEN <<i>> ELSE <<>>)
         \o VeventIndices(comps, i + 1)

RECURSIVE OverrideIndices(_, _)
\* the VEVENTs that carry a RECURRENCE-ID, in order
OverrideIndices(comps, vis) ==
    IF vis = <<>> THEN <<>>
    ELSE (IF comps[Head(vis)].hasRecurrenceId THEN <<Head(vis)>> ELSE <<>>)
         \o OverrideIndices(comps, Tail(vis))

RECURSIVE LastMaster(_, _, _)
\* the last VEVENT without RECURRENCE-ID; 0 stands for None
LastMaster(comps, vis, found) ==
    IF vis = <<>> THEN found
    ELSE LastMaster(comps, Tail(vis),
                    IF comps[Head(vis)].hasRecurrenceId THEN found ELSE Head(vis))

\* lines 339-353: master and overrides after the single-override promotion
SplitItem(comps) ==
    LET vis == VeventIndices(comps, 1)
        master == LastMaster(comps, vis, 0)
        overrides == OverrideIndices(comps, vis)
    IN  IF master = 0 /\ Len(overrides) = 1
        THEN [master |-> overrides[1], overrides |-> <<>>]
        ELSE [master |-> master, overrides |-> overrides]

RECURSIVE Pick(_, _)
Pick(comps, idx) ==
    IF idx = <<>> THEN <<>> ELSE <<comps[Head(idx)]>> \o Pick(comps, Tail(idx))

\* lines 358 and 383: the all-day policy applied to one VEVENT
AllDayIgnored(vevent, calendar_name) ==
    is_all_day_vevent(vevent)
    /\ calendar_name \notin ICLOUD_CALENDARS_ALLOW_FULL_DAY_EVENTS

\* lines 362-372: the body inserted for the master
MasterBody(comps, parts, etag) ==
    LET master_body == obfuscate_vevent(comps[parts.master], etag)
        master_rrule_list ==
            convert_overrides_to_exdates(
                convert_master_recurrence(comps[parts.master]),
                Pick(comps, parts.overrides))
    IN  IF master_rrule_list # <<>>
        THEN [master_body EXCEPT !.hasRecurrence = TRUE,
                                 !.recurrence = master_rrule_list]
        ELSE master_body

RECURSIVE OverrideInsertsNoAllowList(_, _, _, _)
\* the override loop with the allow-list test of line 383 dropped
OverrideInsertsNoAllowList(comps, overrides, calendar_name, etag) ==
    IF overrides = <<>> THEN <<>>
    ELSE (IF is_all_day_vevent(comps[Head(overrides)]) THEN <<>>
          ELSE <<[vi |-> Head(overrides),
                  body |-> obfuscate_vevent(comps[Head(overrides)], etag)]>>)
         \o OverrideInsertsNoAllowList(comps, Tail(overrides), calendar_name, etag)

RECURSIVE OverrideInserts(_, _, _, _)
\* lines 381-394: the inserts of the override loop, in order
OverrideInserts(comps, overrides, calendar_name, etag) ==
    IF overrides = <<>> THEN <<>>
    ELSE (IF AllDayIgnored(comps[Head(overrides)], calendar_name) THEN <<>>
          ELSE <<[vi |-> Head(overrides),
                  body |-> obfuscate_vevent(comps[Head(overrides)], etag)]>>)
         \o OverrideInserts(comps, Tail(overrides), calendar_name, etag)

\* lines 332-394: the inserts issued for one source item, in order
ItemInserts(calendar_name, event) ==
    LET comps == event.comps
        parts == SplitItem(comps)
    IN  IF VeventIndices(comps, 1) = <<>> THEN <<>>
        ELSE IF parts.master # 0
             THEN IF AllDayIgnored(comps[parts.master], calendar_name)
                  THEN <<>>
                  ELSE <<[vi |-> parts.master,
                          body |-> MasterBody(comps, parts, event.etag)]>>
                       \o OverrideInserts(comps, parts.overrides,
                                          calendar_name, event.etag)
             ELSE OverrideInserts(comps, parts.overrides, calendar_name, event.etag)

(* ------------------------------- state -------------------------------- *)
VARIABLES
    pc,               \* where main() stands: auth, fetch, purge, list, delete,
                      \* add, done, aborted
    abort,            \* what ended an aborted run: auth, fetch, list, delete
    run,              \* the number of the current invocation
    lastRun,          \* how many times the script is invoked
    token,            \* the token file: absent, corrupt, valid, expired, stale
    creds,            \* the credentials main() holds: none, valid, invalid
    skipDeletion,     \* GOOGLE_CALENDAR_ID in GOOGLE_CALENDARS_TO_SKIP_DELETION
    remote,           \* the iCloud account: a sequence of [name, events]
    calendars_events, \* what fetch_icloud_events returned, in dict order
    gcal,             \* the events of the Google calendar
    nextId,           \* the id Google gives the next inserted event
    page_token,       \* the events the pages still to come will list
    events,           \* the rest of the page delete_all_events is looping over
    pos,              \* index of the next (calendar, item) pair to insert
    writes,           \* history: every write issued, in order
    faults,           \* history: failures injected so far
    hist              \* history: one record per invocation started

vars == <<pc, abort, run, lastRun, token, creds, skipDeletion, remote,
          calendars_events, gcal, nextId, page_token, events, pos, writes,
          faults, hist>>

(* ------------------------- fetch_icloud_events ------------------------ *)
\* line 312, calendars_events[name] = events: a new key goes last, a key the
\* dict already holds keeps its place and takes the new value
DictSet(d, name, evs) ==
    IF \E j \in 1..Len(d) : d[j].name = name
    THEN [j \in 1..Len(d) |->
              IF d[j].name = name THEN [name |-> name, events |-> evs] ELSE d[j]]
    ELSE Append(d, [name |-> name, events |-> evs])

RECURSIVE FetchedInto(_, _, _, _)
\* the loop of lines 297-315 from calendar i on, d being the dict so far
FetchedInto(calendars, failing, i, d) ==
    IF i > Len(calendars) THEN d
    ELSE FetchedInto(calendars, failing, i + 1,
             IF StartsWithReminders(calendars[i].name)
                \/ calendars[i].name \in ICLOUD_CALENDARS_TO_SKIP
                \/ i \in failing
             THEN d
             ELSE DictSet(d, calendars[i].name, calendars[i].events))

\* lines 289-317: the dict built from the calendars i.., in insertion order;
\* a calendar in failing raises before line 312 and leaves the dict as it is
Fetched(calendars, failing, i) == FetchedInto(calendars, failing, i, <<>>)

RECURSIVE Flat(_, _)
\* the (calendar_name, event) pairs in the order of the two loops at 329-332
Flat(ce, i) ==
    IF i > Len(ce) THEN <<>>
    ELSE [j \in 1..Len(ce[i].events) |->
              [calendar_name |-> ce[i].name, event |-> ce[i].events[j]]]
         \o Flat(ce, i + 1)

(* ------------------------------ main ---------------------------------- *)
\* main() with the purge moved ahead of the fetch
MainNextPurgeFirst(step) ==
    CASE step = "auth" -> "purge"
      [] step = "purge" -> "fetch"
      [] step = "fetch" -> "add"
      [] step = "add" -> "done"

\* the order of the steps of main(), lines 404-418
MainNext(step) ==
    CASE step = "auth" -> "fetch"
      [] step = "fetch" -> "purge"
      [] step = "purge" -> "add"
      [] step = "add" -> "done"

\* the test of line 412 inverted
PurgeEnabledInverted(skip) == skip

\* line 412: whether main() purges the destination calendar
PurgeEnabled(skip) == ~skip

\* the purge loop without the test of line 103
SkipsEventNever(event) == FALSE

\* line 103: birthday events are left alone
SkipsEvent(event) == event.eventType = "birthday"

\* the calendar after events().delete(eventId=id)
Deleted(g, id) == SelectSeq(g, LAMBDA e : e.id # id)

\* a list call that never hands out a continuation token
NextPageTokenNone(listed, n) == <<>>

\* line 117: what is left to list after a page of n events
NextPageToken(listed, n) == SubSeq(listed, n + 1, Len(listed))

NoSource == [calendar_name |-> <<>>, k |-> 0, vi |-> 0]

WriteRec(r, op, status, event, src) ==
    [run |-> r, op |-> op, status |-> status, event |-> event, src |-> src]

Abort(why) ==
    /\ pc' = "aborted"
    /\ abort' = why

(* main, lines 405-406: authenticate_google (38-81), then build() *)
AuthenticateGoogle ==
    /\ pc = "auth"
    /\ \E refreshOk \in BOOLEAN, flowOk \in BOOLEAN, buildOk \in BOOLEAN :
        LET loaded == IF token \in {"absent", "corrupt"} THEN "none" ELSE token
            refreshing == loaded = "expired"
            afterRefresh == IF refreshing
                            THEN (IF refreshOk THEN "valid" ELSE "none")
                            ELSE loaded
            flowing == afterRefresh = "none"
            building == ~flowing \/ flowOk
            nfail == (IF refreshing /\ ~refreshOk THEN 1 ELSE 0)
                     + (IF flowing /\ ~flowOk THEN 1 ELSE 0)
                     + (IF building /\ ~buildOk THEN 1 ELSE 0)
            removed == token = "corrupt" \/ (refreshing /\ ~refreshOk)
        IN  /\ refreshing \/ refreshOk
            /\ flowing \/ flowOk
            /\ building \/ buildOk
            /\ faults + nfail <= MaxFaults
            /\ faults' = faults + nfail
            /\ token' = IF flowing /\ flowOk THEN "valid"
                        ELSE IF removed THEN "absent" ELSE token
            /\ IF building /\ buildOk
               THEN /\ pc' = MainNext("auth")
                    /\ abort' = abort
                    /\ creds' = IF flowing \/ afterRefresh = "valid"
                                THEN "valid" ELSE "invalid"
               ELSE /\ Abort("auth")       \* SystemExit, or build() raises
                    /\ creds' = "none"
    /\ UNCHANGED <<run, lastRun, skipDeletion, remote, calendars_events, gcal,
                   nextId, page_token, events, pos, writes, hist>>

(* fetch_icloud_events, lines 281-317 *)
FetchIcloudEvents ==
    /\ pc = "fetch"
    /\ \/ /\ faults < MaxFaults          \* principal() or calendars() raises
          /\ faults' = faults + 1
          /\ Abort("fetch")
          /\ UNCHANGED calendars_events
       \/ \E failing \in SUBSET (1..Len(remote)) :
             /\ \A i \in failing :
                    /\ ~StartsWithReminders(remote[i].name)
                    /\ remote[i].name \notin ICLOUD_CALENDARS_TO_SKIP
             /\ faults + Cardinality(failing) <= MaxFaults
             /\ faults' = faults + Cardinality(failing)
             /\ calendars_events' = Fetched(remote, failing, 1)
             /\ pc' = MainNext("fetch")
             /\ abort' = abort
    /\ UNCHANGED <<run, lastRun, token, creds, skipDeletion, remote, gcal, nextId,
                   page_token, events, pos, writes, hist>>

(* main, lines 412-415: the skip-deletion branch *)
SkipDeletion ==
    /\ pc = "purge"
    /\ ~PurgeEnabled(skipDeletion)
    /\ pc' = MainNext("purge")
    /\ UNCHANGED <<abort, run, lastRun, token, creds, skipDeletion, remote,
                   calendars_events, gcal, nextId, page_token, events, pos,
                   writes, faults, hist>>

(* delete_all_events_from_google, lines 94-99: one events().list call *)
ListEvents ==
    /\ \/ pc = "purge" /\ PurgeEnabled(skipDeletion)
       \/ pc = "list"
    /\ LET listed == IF pc = "purge" THEN gcal ELSE page_token
           n == IF Len(listed) < PageSize THEN Len(listed) ELSE PageSize
       IN  \/ /\ creds = "valid"
              /\ events' = SubSeq(listed, 1, n)
              /\ page_token' = NextPageToken(listed, n)
              /\ pc' = "delete"
              /\ UNCHANGED <<abort, faults>>
           \/ /\ creds # "valid" \/ faults < MaxFaults      \* the call raises
              /\ faults' = IF creds = "valid" THEN faults + 1 ELSE faults
              /\ Abort("list")
              /\ UNCHANGED <<events, page_token>>
    /\ UNCHANGED <<run, lastRun, token, creds, skipDeletion, remote,
                   calendars_events, gcal, nextId, pos, writes, hist>>

(* lines 101-104: a birthday event is passed over *)
SkipBirthday ==
    /\ pc = "delete"
    /\ events # <<>>
    /\ SkipsEvent(Head(events))
    /\ events' = Tail(events)
    /\ UNCHANGED <<pc, abort, run, lastRun, token, creds, skipDeletion, remote,
                   calendars_events, gcal, nextId, page_token, pos, writes,
                   faults, hist>>

(* lines 105-115: one events().delete call *)
DeleteEvent ==
    /\ pc = "delete"
    /\ events # <<>>
    /\ ~SkipsEvent(Head(events))
    /\ LET event == Head(events)
       IN  \/ /\ writes' = Append(writes, WriteRec(run, "delete", "ok", event, NoSource))
              /\ gcal' = Deleted(gcal, event.id)
              /\ events' = Tail(events)
              /\ UNCHANGED <<pc, abort, faults>>
           \/ /\ faults < MaxFaults             \* HttpError 410: already gone
              /\ faults' = faults + 1
              /\ writes' = Append(writes, WriteRec(run, "delete", "410", event, NoSource))
              /\ gcal' = Deleted(gcal, event.id)
              /\ events' = Tail(events)
              /\ UNCHANGED <<pc, abort>>
           \/ /\ faults < MaxFaults             \* any other error is re-raised
              /\ faults' = faults + 1
              /\ writes' = Append(writes, WriteRec(run, "delete", "error", event, NoSource))
              /\ Abort("delete")
              /\ UNCHANGED <<gcal, events>>
    /\ UNCHANGED <<run, lastRun, token, creds, skipDeletion, remote,
                   calendars_events, nextId, page_token, pos, hist>>

(* lines 117-119: the page is done; fetch the next one or leave the loop *)
PageDone ==
    /\ pc = "delete"
    /\ events = <<>>
    /\ pc' = IF page_token # <<>> THEN "list" ELSE MainNext("purge")
    /\ UNCHANGED <<abort, run, lastRun, token, creds, skipDeletion, remote,
                   calendars_events, gcal, nextId, page_token, events, pos,
                   writes, faults, hist>>

RECURSIVE Inserted(_, _, _, _)
\* the events the calendar gains from the inserts that succeed
Inserted(inserts, failed, i, id) ==
    IF i > Len(inserts) THEN <<>>
    ELSE IF i \in failed THEN Inserted(inserts, failed, i + 1, id)
         ELSE <<[id |-> id, eventType |-> "default", body |-> inserts[i].body]>>
              \o Inserted(inserts, failed, i + 1, id + 1)

RECURSIVE InsertLog(_, _, _, _, _, _)
InsertLog(inserts, failed, i, id, src, r) ==
    IF i > Len(inserts) THEN <<>>
    ELSE <<WriteRec(r, "insert", IF i \in failed THEN "error" ELSE "ok",
                    [id |-> IF i \in failed THEN 0 ELSE id,
                     eventType |-> "default", body |-> inserts[i].body],
                    [src EXCEPT !.vi = inserts[i].vi])>>
         \o InsertLog(inserts, failed, i + 1,
                      IF i \in failed THEN id ELSE id + 1, src, r)

(* add_icloud_events_to_google, lines 332-394: one source item *)
AddEvent ==
    /\ pc = "add"
    /\ pos <= Len(Flat(calendars_events, 1))
    /\ LET item == Flat(calendars_events, 1)[pos]
           inserts == ItemInserts(item.calendar_name, item.event)
           src == [calendar_name |-> item.calendar_name, k |-> pos, vi |-> 0]
       IN  \E failed \in SUBSET (1..Len(inserts)) :
             /\ IF creds = "valid"
                THEN /\ faults + Cardinality(failed) <= MaxFaults
                     /\ faults' = faults + Cardinality(failed)
                ELSE /\ failed = 1..Len(inserts)
                     /\ faults' = faults
             /\ gcal' = gcal \o Inserted(inserts, failed, 1, nextId)
             /\ nextId' = nextId + Len(inserts) - Cardinality(failed)
             /\ writes' = writes \o InsertLog(inserts, failed, 1, nextId, src, run)
    /\ pos' = pos + 1
    /\ UNCHANGED <<pc, abort, run, lastRun, token, creds, skipDeletion, remote,
                   calendars_events, page_token, events, hist>>

(* the loops of add_icloud_events_to_google are exhausted; main returns *)
AddDone ==
    /\ pc = "add"
    /\ pos > Len(Flat(calendars_events, 1))
    /\ pc' = MainNext("add")
    /\ UNCHANGED <<abort, run, lastRun, token, creds, skipDeletion, remote,
                   calendars_events, gcal, nextId, page_token, events, pos,
                   writes, faults, hist>>

(* lines 426-427: the script is started again *)
NextRun ==
    /\ pc \in {"done", "aborted"}
    /\ run < lastRun
    /\ hist' = Append(hist, [outcome |-> pc, gcal |-> gcal,
                             fetched |-> calendars_events])
    /\ run' = run + 1
    /\ pc' = "auth"
    /\ abort' = "none"
    /\ creds' = "none"
    /\ calendars_events' = <<>>
    /\ page_token' = <<>>
    /\ events' = <<>>
    /\ pos' = 1
    /\ UNCHANGED <<lastRun, token, skipDeletion, remote, gcal, nextId, writes,
                   faults>>

Next ==
    \/ AuthenticateGoogle
    \/ FetchIcloudEvents
    \/ SkipDeletion
    \/ ListEvents
    \/ SkipBirthday
    \/ DeleteEvent
    \/ PageDone
    \/ AddEvent
    \/ AddDone
    \/ NextRun

(* ------------------------------ inputs -------------------------------- *)
Paris == ZoneTz("Europe/Paris")
NoParams == [TZID |-> None]
NoRecurrenceId == [value |-> Date(0), params |-> NoParams]

Vevent(uid, dtstart) ==
    [name |-> "VEVENT", uid |-> uid, dtstart |-> dtstart,
     hasDtend |-> FALSE, dtend |-> dtstart,
     hasRrule |-> FALSE, rrule |-> None,
     hasExdate |-> FALSE, exdate |-> <<>>,
     hasRecurrenceId |-> FALSE, recurrence_id |-> NoRecurrenceId]

WithDtend(v, dtend) == [v EXCEPT !.hasDtend = TRUE, !.dtend = dtend]
WithRrule(v) == [v EXCEPT !.hasRrule = TRUE, !.rrule = "FREQ=WEEKLY;COUNT=5"]
WithExdate(v) ==
    [v EXCEPT !.hasExdate = TRUE,
              !.exdate = <<[value |-> <<DateTime(17, Paris)>>, params |-> NoParams]>>]
WithRecurrenceId(v, value, tzid) ==
    [v EXCEPT !.hasRecurrenceId = TRUE,
              !.recurrence_id = [value |-> value, params |-> [TZID |-> tzid]]]

\* the tzinfo objects a parsed DTSTART / DTEND can carry
Zones ==
    { NoTz,                                        \* naive
      Paris,                                       \* pytz zone
      ZoneTz(None),                                \* pytz fixed offset
      ZoneTz(""),
      ReprTz(<<"tzfile(", "'", "Europe/Paris", "'", ")">>),
      ReprTz(<<"tzutc()">>) }
Instants == {Date(1)} \cup {DateTime(10, z) : z \in Zones}

\* components that differ in their role within a recurring item
Starts == {Date(1), DateTime(10, Paris)}
Masters ==
    { IF r THEN (IF x THEN WithExdate(WithRrule(Vevent("u1", s))) ELSE WithRrule(Vevent("u1", s)))
      ELSE (IF x THEN WithExdate(Vevent("u1", s)) ELSE Vevent("u1", s)) :
      s \in Starts, r \in BOOLEAN, x \in BOOLEAN }
Overrides ==
    { WithRecurrenceId(Vevent("u1", Date(3)), Date(2), None),
      WithRecurrenceId(Vevent("u1", DateTime(25, Paris)), DateTime(24, Paris), "Europe/Paris"),
      WithRecurrenceId(Vevent("u1", DateTime(49, Paris)), DateTime(48, NoTz), None) }
Mixed ==
    { WithDtend(Vevent("u1", Date(1)), DateTime(34, Paris)),
      WithDtend(Vevent("u1", Date(1)), Date(2)),
      WithDtend(Vevent("u1", DateTime(10, Paris)), DateTime(12, Paris)) }
Todo == [Vevent("u1", Date(1)) EXCEPT !.name = "VTODO"]
Components == Masters \cup Overrides \cup Mixed \cup {Todo}

SeqsUpTo(S, n) == UNION {[1..m -> S] : m \in 0..n}
Item(comps) == [etag |-> "e1", comps |-> comps]

\* items that probe the all-day policy and the recurrence translation
RoleItems == {Item(c) : c \in SeqsUpTo(Components, MaxVevents)}
\* items that probe the time-zone resolution of start and end
ZoneItems ==
    {Item(<<Vevent("u1", s)>>) : s \in Instants}
    \cup {Item(<<WithDtend(Vevent("u1", s), e)>>) : s \in Instants, e \in Instants}

\* the i-th item of the Work calendar: single events and series alternate
WorkItem(i) ==
    LET uid == "w" \o ToString(i)
    IN  IF i % 2 = 1
        THEN [etag |-> "e1", comps |-> <<Vevent(uid, DateTime(10 + i, Paris))>>]
        ELSE [etag |-> "e1",
              comps |-> <<WithRrule(Vevent(uid, DateTime(10 + i, Paris))),
                          WithRecurrenceId(Vevent(uid, DateTime(35 + i, Paris)),
                                           DateTime(34 + i, Paris), "Europe/Paris")>>]
PlainItem == WorkItem(1)
SeriesItem == WorkItem(2)
AllDayItem == [etag |-> "e3", comps |-> <<Vevent("u3", Date(5))>>]

ManualBody ==
    [summary |-> "Dentist",
     start |-> TimeField(DateTime(8, Paris)), end |-> TimeField(DateTime(9, Paris)),
     transparency |-> "opaque",
     private |-> [icloud_uid |-> None, icloud_etag |-> None],
     hasRecurrence |-> FALSE, recurrence |-> <<>>]
Manual == [id |-> 1, eventType |-> "default", body |-> ManualBody]
Birthday == [id |-> 2, eventType |-> "birthday", body |-> ManualBody]
Synced ==
    [id |-> 3, eventType |-> "default",
     body |-> obfuscate_vevent(PlainItem.comps[1], PlainItem.etag)]
SyncedStale ==
    [id |-> 4, eventType |-> "default",
     body |-> obfuscate_vevent(SeriesItem.comps[1], "e0")]
Orphan ==
    [id |-> 5, eventType |-> "default",
     body |-> obfuscate_vevent(Vevent("u9", DateTime(10, Paris)), "e9")]
Destinations ==
    { <<>>, <<Manual, Birthday, Synced>>, <<Synced, SyncedStale, Orphan, Manual>> }

\* hist[r] describes the start of invocation r: how the one before it ended,
\* what it had fetched, and the calendar it left
Started(g) == [outcome |-> "none", gcal |-> g, fetched |-> <<>>]

Common ==
    /\ pc = "auth"
    /\ abort = "none"
    /\ run = 1
    /\ creds = "none"
    /\ calendars_events = <<>>
    /\ nextId = 6
    /\ page_token = <<>>
    /\ events = <<>>
    /\ pos = 1
    /\ writes = <<>>
    /\ faults = 0

\* one calendar, one item: every shape of item, in and out of the allow list
InitItem ==
    /\ Common
    /\ lastRun = 1
    /\ token = "valid"
    /\ skipDeletion = FALSE
    /\ gcal = <<Manual>>
    /\ \E name \in {CalWork, CalFamily}, item \in RoleItems \cup ZoneItems :
           remote = <<[name |-> name, events |-> <<item>>]>>
    /\ hist = <<Started(gcal)>>

\* a whole account synchronised repeatedly against a populated destination
InitRun ==
    /\ Common
    /\ lastRun = MaxRuns
    /\ token = "valid"
    /\ skipDeletion \in BOOLEAN
    /\ gcal \in Destinations
    /\ \E m \in 0..MaxEvents :
        LET work == [i \in 1..m |-> WorkItem(i)]
        IN remote = <<[name |-> CalReminders, events |-> <<PlainItem>>],
                      [name |-> CalPrivate, events |-> <<PlainItem>>],
                      [name |-> CalWork, events |-> work],
                      [name |-> CalFamily, events |-> <<AllDayItem>>]>>
    /\ hist = <<Started(gcal)>>

\* every state of the token file, against a small account
InitAuth ==
    /\ Common
    /\ lastRun = MaxRuns
    /\ token \in {"absent", "corrupt", "valid", "expired", "stale"}
    /\ skipDeletion \in BOOLEAN
    /\ gcal = <<Manual, Birthday>>
    /\ remote = <<[name |-> CalWork, events |-> <<PlainItem>>]>>
    /\ hist = <<Started(gcal)>>

\* an account with two calendars of the same name
InitSameName ==
    /\ Common
    /\ lastRun = MaxRuns
    /\ token = "valid"
    /\ skipDeletion \in BOOLEAN
    /\ gcal = <<Manual>>
    /\ \E first \in {<<PlainItem>>, <<PlainItem, SeriesItem>>} :
           remote = <<[name |-> CalWork, events |-> first],
                      [name |-> CalFamily, events |-> <<AllDayItem>>],
                      [name |-> CalWork, events |-> <<SeriesItem>>]>>
    /\ hist = <<Started(gcal)>>

Init == InitItem \/ InitRun \/ InitAuth \/ InitSameName

Spec == Init /\ [][Next]_vars

(* --------------------------- claim vocabulary ------------------------- *)
\* the writes of the current invocation
RunWrites == SelectSeq(writes, LAMBDA w : w.run = run)
RunDeletes == SelectSeq(RunWrites, LAMBDA w : w.op = "delete")
RunInserts == SelectSeq(RunWrites, LAMBDA w : w.op = "insert")
StartGcal == hist[run].gcal
Items == Flat(calendars_events, 1)
SourceVevent(w) == Items[w.src.k].event.comps[w.src.vi]
HasIdentity(event) == Truthy(event.body.private.icloud_uid)
NoFailure == faults = 0 /\ \A i \in 1..Len(writes) : writes[i].status = "ok"
Count(seq, e) == Cardinality({i \in 1..Len(seq) : seq[i].event = e})
\* the policy of the spec, section 4.3, for one VEVENT
Excluded(vevent, calendar_name) ==
    ~vevent.dtstart.isDatetime /\ calendar_name # CalFamily

(* C9: when authentication with Google or the iCloud principal/calendar     *)
(* lookup fails, the run aborts and has issued no destination write.        *)
C9_NoWriteBeforeSessionFailure ==
    (pc = "aborted" /\ abort \in {"auth", "fetch"}) => RunWrites = <<>>

C9_Witness ==
    /\ pc = "aborted"
    /\ abort = "fetch"
    /\ run = 1
    /\ ~skipDeletion
    /\ \E i \in 1..Len(gcal) : gcal[i].eventType # "birthday"

(* C3 as stated: no write ever targets a destination event that carries no  *)
(* icloud_uid private property.                                             *)
C3_ForeignNeverTargeted ==
    \A i \in 1..Len(writes) : HasIdentity(writes[i].event)

(* C3: no write ever targets a birthday event; an event without icloud_uid  *)
(* is not protected: a run that purges and completes has issued a delete    *)
(* for every such event that is not a birthday event.                       *)
C3_OnlyBirthdaysProtected ==
    /\ \A i \in 1..Len(writes) : writes[i].event.eventType # "birthday"
    /\ (pc = "done" /\ ~skipDeletion) =>
           \A j \in 1..Len(StartGcal) :
               (~HasIdentity(StartGcal[j]) /\ StartGcal[j].eventType # "birthday")
               => Count(RunDeletes, StartGcal[j]) = 1

C3_Witness ==
    /\ pc = "done"
    /\ ~skipDeletion
    /\ Count(RunDeletes, Manual) = 1
    /\ \E j \in 1..Len(gcal) : gcal[j] = Birthday

(* C4: a failed write (create, update or delete) never aborts the run.      *)
C4_WriteFailureNeverAborts ==
    ~(/\ pc = "aborted"
      /\ abort = "delete"
      /\ RunWrites # <<>>
      /\ RunWrites[Len(RunWrites)].status = "error")

(* C1 as stated: a second run after a first one, with the same source and   *)
(* no failure, issues no destination write.                                 *)
C1_SecondRunWritesNothing ==
    (/\ run = 2
     /\ pc = "done"
     /\ hist[run].outcome = "done"
     /\ hist[run].fetched = calendars_events
     /\ NoFailure) => RunWrites = <<>>

Kinds(g) == [i \in 1..Len(g) |-> [eventType |-> g[i].eventType, body |-> g[i].body]]
Deletable(g) == SelectSeq(g, LAMBDA e : e.eventType # "birthday")

(* C1: a further run after a completed one, with the same source, no        *)
(* failure and the purge enabled, deletes every event the run before left   *)
(* except birthday events and inserts the same bodies again: the calendar   *)
(* holds the same events as before, under new ids.                          *)
C1_SecondRunReplacesAll ==
    (/\ run >= 2
     /\ pc = "done"
     /\ hist[run].outcome = "done"
     /\ hist[run].fetched = calendars_events
     /\ ~skipDeletion
     /\ NoFailure)
    => /\ Kinds(gcal) = Kinds(StartGcal)
       /\ [i \in 1..Len(RunDeletes) |-> RunDeletes[i].event] = Deletable(StartGcal)
       /\ [i \in 1..Len(RunInserts) |-> RunInserts[i].event.body]
          = [i \in 1..Len(SelectSeq(StartGcal, HasIdentity)) |->
                 SelectSeq(StartGcal, HasIdentity)[i].body]

C1_Witness ==
    /\ run = 2
    /\ pc = "done"
    /\ hist[run].outcome = "done"
    /\ hist[run].fetched = calendars_events
    /\ ~skipDeletion
    /\ NoFailure
    /\ RunDeletes # <<>>
    /\ RunInserts # <<>>

\* S: the identities of the fetched source items, with their fingerprints
SourceIds ==
    UNION {{Items[k].event.comps[v].uid : v \in 1..Len(Items[k].event.comps)} :
               k \in 1..Len(Items)}
\* I: the identities embedded in the destination when the run started
IndexIds == {StartGcal[j].body.private.icloud_uid :
                 j \in {j \in 1..Len(StartGcal) : HasIdentity(StartGcal[j])}}
NumWrites(op, uid) ==
    Cardinality({i \in 1..Len(RunWrites) :
                    /\ RunWrites[i].op = op
                    /\ RunWrites[i].event.body.private.icloud_uid = uid})
SameFingerprint(uid) ==
    \E k \in 1..Len(Items), j \in 1..Len(StartGcal) :
        /\ \E v \in 1..Len(Items[k].event.comps) : Items[k].event.comps[v].uid = uid
        /\ StartGcal[j].body.private.icloud_uid = uid
        /\ StartGcal[j].body.private.icloud_etag = Items[k].event.etag

(* C2 as stated: a run issues one create per identity in S not in I, one    *)
(* update per identity in both whose fingerprints differ, one delete per    *)
(* identity in I not in S, and nothing for an identity in both whose        *)
(* fingerprints are equal.                                                  *)
C2_MinimalDiff ==
    (pc = "done" /\ NoFailure) =>
        \A uid \in SourceIds \cup IndexIds :
            /\ (uid \in SourceIds \ IndexIds) => NumWrites("insert", uid) = 1
            /\ (uid \in IndexIds \ SourceIds) => NumWrites("delete", uid) = 1
            /\ (uid \in SourceIds \cap IndexIds /\ ~SameFingerprint(uid))
                   => NumWrites("update", uid) = 1
            /\ (uid \in SourceIds \cap IndexIds /\ SameFingerprint(uid))
                   => /\ NumWrites("insert", uid) = 0
                      /\ NumWrites("update", uid) = 0
                      /\ NumWrites("delete", uid) = 0

NumInserts(k, vi) ==
    Cardinality({i \in 1..Len(RunInserts) :
                    RunInserts[i].src.k = k /\ RunInserts[i].src.vi = vi})

(* C2: a run without failure issues one delete for every destination event  *)
(* that is not a birthday event (none when deletion is skipped), whatever   *)
(* its identity and fingerprint, never an update, and one create for the    *)
(* master VEVENT of every source item unless that master is an all-day      *)
(* event outside the allow list, whether or not the destination already     *)
(* holds the identity.                                                      *)
C2_PurgeAndInsert ==
    (pc = "done" /\ NoFailure) =>
        /\ \A i \in 1..Len(RunWrites) : RunWrites[i].op \in {"delete", "insert"}
        /\ \A j \in 1..Len(StartGcal) :
               Count(RunDeletes, StartGcal[j])
               = IF skipDeletion \/ StartGcal[j].eventType = "birthday" THEN 0 ELSE 1
        /\ Len(RunDeletes) = IF skipDeletion THEN 0 ELSE Len(Deletable(StartGcal))
        /\ \A k \in 1..Len(Items) :
               LET comps == Items[k].event.comps
                   m == SplitItem(comps).master
               IN  m # 0 =>
                       NumInserts(k, m)
                       = IF Excluded(comps[m], Items[k].calendar_name) THEN 0 ELSE 1

C2_Witness ==
    /\ pc = "done"
    /\ NoFailure
    /\ ~skipDeletion
    /\ Len(StartGcal) > PageSize
    /\ \E uid \in SourceIds \cap IndexIds :
           /\ SameFingerprint(uid)
           /\ NumWrites("delete", uid) = 1
           /\ NumWrites("insert", uid) = 1

DateOnly(field) == field.form = "date" /\ field.timeZone = None
\* the calendar an insert of the current run was made for
CalendarOf(w) == Items[w.src.k].calendar_name

(* C5 as stated: no create is issued for an all-day VEVENT of a calendar    *)
(* outside the allow list, and the create for an all-day VEVENT of an       *)
(* allow-listed calendar has a date-only start and end without a zone.      *)
C5_AllDayGating ==
    \A i \in 1..Len(RunInserts) :
        LET w == RunInserts[i]
        IN  ~SourceVevent(w).dtstart.isDatetime =>
                /\ CalendarOf(w) = CalFamily
                /\ DateOnly(w.event.body.start)
                /\ DateOnly(w.event.body.end)

(* C5: no create is issued for an all-day VEVENT of a calendar outside the  *)
(* allow list; the create for an all-day VEVENT of an allow-listed calendar *)
(* has a date-only start without a zone, and a date-only end without a      *)
(* zone when the VEVENT has no DTEND or its DTEND is a civil date.          *)
C5_AllDayGatingByStart ==
    \A i \in 1..Len(RunInserts) :
        LET w == RunInserts[i]
            v == SourceVevent(w)
        IN  ~v.dtstart.isDatetime =>
                /\ CalendarOf(w) = CalFamily
                /\ DateOnly(w.event.body.start)
                /\ (~v.hasDtend \/ ~v.dtend.isDatetime) => DateOnly(w.event.body.end)

C5_Witness ==
    \E i \in 1..Len(RunInserts) :
        /\ ~SourceVevent(RunInserts[i]).dtstart.isDatetime
        /\ SourceVevent(RunInserts[i]).hasDtend
        /\ CalendarOf(RunInserts[i]) = CalFamily
        /\ RunInserts[i].status = "ok"
        /\ DateOnly(RunInserts[i].event.body.end)

NumLines(recurrence, line) ==
    Cardinality({j \in 1..Len(recurrence) : recurrence[j].line = line})
NumInstants(vevent) ==
    IF vevent.hasExdate
    THEN Len(ExdateLines(vevent.exdate, 1))
    ELSE 0

(* C6: a recurrence expression given to a master's body starts with the     *)
(* rule line, holds no other rule line, and holds as many exception-date    *)
(* lines as the master has exception instants plus the item has overrides.  *)
C6_RuleLineFirst ==
    \A i \in 1..Len(RunInserts) :
        LET w == RunInserts[i]
            comps == Items[w.src.k].event.comps
            recurrence == w.event.body.recurrence
        IN  w.event.body.hasRecurrence =>
                /\ recurrence # <<>>
                /\ recurrence[1].line = "RRULE"
                /\ NumLines(recurrence, "RRULE") = 1
                /\ NumLines(recurrence, "EXDATE")
                   = NumInstants(SourceVevent(w))
                     + Cardinality({v \in 1..Len(comps) :
                                       /\ v # w.src.vi
                                       /\ comps[v].name = "VEVENT"
                                       /\ comps[v].hasRecurrenceId})

(* C7: with no write failure, every VEVENT of a processed source item that  *)
(* the inclusion policy admits has exactly one create, and the create of an *)
(* override carries no recurrence expression.                               *)
C7_EveryEligibleVeventCreated ==
    (pc \in {"add", "done"} /\ NoFailure) =>
        /\ \A k \in 1..Len(Items) :
               \A v \in 1..Len(Items[k].event.comps) :
                   (/\ k < pos
                    /\ Items[k].event.comps[v].name = "VEVENT"
                    /\ ~Excluded(Items[k].event.comps[v], Items[k].calendar_name))
                   => NumInserts(k, v) = 1
        /\ \A i \in 1..Len(RunInserts) :
               SourceVevent(RunInserts[i]).hasRecurrenceId
               => ~RunInserts[i].event.body.hasRecurrence

\* the zone the spec, section 4.1, resolves for a zoned instant
ResolvedZone(tzinfo) ==
    LET name == IF tzinfo.none THEN None
                ELSE IF tzinfo.hasZone THEN tzinfo.zone
                ELSE IF Contains(tzinfo.repr, "'") THEN Split(tzinfo.repr, "'")[2]
                ELSE None
    IN  IF Truthy(name) THEN name ELSE default_timezone
FieldAsSpecified(field, dt) ==
    /\ field.form = "date" <=> ~dt.isDatetime
    /\ ~dt.isDatetime => field.timeZone = None
    /\ dt.isDatetime => field.timeZone = ResolvedZone(dt.tzinfo)

(* C8: the start and the end of a body are date-only exactly when the value *)
(* is a civil date; a timed value gives the dateTime form with the resolved *)
(* zone, or the default zone when the resolution yields nothing.            *)
C8_ZoneFallback ==
    \A i \in 1..Len(RunInserts) :
        /\ FieldAsSpecified(RunInserts[i].event.body.start,
                            SourceVevent(RunInserts[i]).dtstart)
        /\ FieldAsSpecified(RunInserts[i].event.body.end,
                            EndOf(SourceVevent(RunInserts[i])))

\* the overrides whose RECURRENCE-ID became an exception date of insert w
SuppressedBy(w) ==
    LET comps == Items[w.src.k].event.comps
    IN  IF w.event.body.hasRecurrence
        THEN {v \in 1..Len(comps) :
                 v # w.src.vi /\ comps[v].name = "VEVENT" /\ comps[v].hasRecurrenceId}
        ELSE {}
Replaced(k, v, statuses) ==
    \E j \in 1..Len(RunInserts) :
        /\ RunInserts[j].src.k = k
        /\ RunInserts[j].src.vi = v
        /\ RunInserts[j].status \in statuses

(* C10 as stated: once an item is processed, every override whose original  *)
(* instant is an exception date of the created master has been created too. *)
C10_SuppressedOccurrenceReplaced ==
    \A i \in 1..Len(RunInserts) :
        LET w == RunInserts[i]
        IN  (w.status = "ok" /\ w.src.k < pos) =>
                \A v \in SuppressedBy(w) : Replaced(w.src.k, v, {"ok"})

(* C10: once an item is processed, every override whose original instant is *)
(* an exception date of the master has had its own create issued, unless it *)
(* is an all-day override outside the allow list; that create may fail.     *)
C10_SuppressedOccurrenceAttempted ==
    \A i \in 1..Len(RunInserts) :
        LET w == RunInserts[i]
            comps == Items[w.src.k].event.comps
        IN  w.src.k < pos =>
                \A v \in SuppressedBy(w) :
                    Replaced(w.src.k, v, {"ok", "error"})
                    <=> ~Excluded(comps[v], CalendarOf(w))

C10_Witness ==
    \E i \in 1..Len(RunInserts) :
        \E v \in SuppressedBy(RunInserts[i]) :
            /\ RunInserts[i].status = "ok"
            /\ RunInserts[i].src.k < pos
            /\ ~Items[RunInserts[i].src.k].event.comps[v].dtstart.isDatetime
            /\ Replaced(RunInserts[i].src.k, v, {"ok"})
====
